---- MODULE Spec2Model ----
(***************************************************************************)
(* Model of the realtime voice client: RealtimeClient (client.py) and      *)
(* AudioPlayer (audio_utils.py).                                           *)
(*                                                                         *)
(* Three threads act on the shared state:                                  *)
(*   - the websocket thread runs on_message, one inbound event at a time;  *)
(*     it is the only writer of response_states, current_response_id and   *)
(*     current_item_id, so each handler is one action;                     *)
(*   - the playback thread runs _play_received_audio; every read of the    *)
(*     shared state it makes is its own step (play_pc), because the        *)
(*     websocket thread can run between any two of them;                   *)
(*   - the audio device thread runs AudioPlayer._callback while the output *)
(*     stream is active.                                                   *)
(***************************************************************************)
EXTENDS Integers, Sequences, FiniteSets, TLC

\* ---------------------------------------------------------------- bounds
MaxEvents == 4       \* inbound events handled in one run
MaxQueue == 2        \* fragments waiting in audio_queue
MaxText == 2         \* deltas held in a text accumulator
MaxCallbacks == 2    \* render callbacks between two resets
MaxRendered == 3010  \* render callbacks before the first event, SpecInterrupt

\* ------------------------------------------------------- program constants
audio_sample_rate == 24000
blocksize == 1024
channels == 1

\* ------------------------------------------------------------ input sets
None == "None"
Responses == {"R1", "R2"}
Items == {"I1", "I2"}
Roles == {"assistant", "user"}
\* decoded byte length of the delta of a response.audio.delta event
\* (0: the event carries an empty delta)
AudioDeltas == {0, 2048, 4096}
\* status carried by response.done
Statuses == {"completed", "cancelled"}
\* event types on_message has no branch for; the second carries a response id
UnhandledTypes == {"input_audio_buffer.cleared",
                   "response.function_call_arguments.delta"}

VARIABLES
    response_states,          \* response id -> state; "none": id not in the dict
    current_response_id,
    current_item_id,
    audio_queue,              \* Queue of <<response_id, decoded_audio>>
    assistant_speaking,       \* threading.Event
    assistant_audio_playing,  \* threading.Event
    text_buffer,              \* deltas appended, each named by its response
    audio_transcript_buffer,
    buffer,                   \* AudioPlayer.buffer: runs of samples, by response
    total_samples_played,     \* AudioPlayer.total_samples_played
    playback_finished,        \* AudioPlayer.playback_finished
    stream_active,            \* AudioPlayer.stream.active
    play_pc,                  \* position of the playback thread in its loop
    play_chunk,               \* fragment the playback thread holds
    sent,                     \* messages passed to ws.send, in order
    printed,                  \* the accumulator the step wrote to the terminal
    last_event,               \* the event on_message handled in the step
    nevents,
    superseded,               \* history: responses that were active with audio
                              \* playing when another response was created
    written,                  \* history: responses with a fragment written to
                              \* the player since they were created
    stop_audio,               \* threading.Event: the global stop signal
    ws_open,                  \* the websocket connection is open
    record_pc,                \* position of the capture thread in its loop
    main_pc,                  \* position of the main thread in start_audio_stream
    process,                  \* "running" until the main thread returns
    cb_pc,                    \* position of the device thread in _callback
    reset_pc,                 \* position of the caller in AudioPlayer.reset
    outdata,                  \* what the last _callback handed to the device
    snapshot,                 \* last value returned by get_total_played_samples
    reset_state,              \* history: the player as the last reset left it,
                              \* while nothing has touched the player since
    unhandled_event_types     \* set of the unrecognized event types seen

vars == <<response_states, current_response_id, current_item_id, audio_queue,
          assistant_speaking, assistant_audio_playing, text_buffer,
          audio_transcript_buffer, buffer, total_samples_played,
          playback_finished, stream_active, play_pc, play_chunk, sent,
          printed, last_event, nevents, superseded, written,
          stop_audio, ws_open, record_pc, main_pc, process,
          cb_pc, reset_pc, outdata, snapshot, reset_state,
          unhandled_event_types>>

\* the state on_message and the interruption path act on
clientVars == <<response_states, current_response_id, current_item_id,
                audio_queue, assistant_speaking, assistant_audio_playing,
                text_buffer, audio_transcript_buffer, sent>>
playerVars == <<buffer, total_samples_played, playback_finished, stream_active>>
playVars == <<play_pc, play_chunk>>
historyVars == <<superseded, written>>
\* the threads' life cycle, acted on when the session ends
lifeVars == <<stop_audio, ws_open, record_pc, main_pc, process>>
\* the positions inside the AudioPlayer methods, for the runs that follow
\* the player lock section by lock section
stepVars == <<cb_pc, reset_pc, outdata, snapshot, reset_state>>

NoChunk == [response_id |-> None, bytes |-> 0]
NoEvent == [type |-> "none", response_id |-> None]
NoPrint == [kind |-> "none", response_id |-> None, content |-> <<>>]
NoOut == [played |-> <<>>, silence |-> 0]
NoReset == [during |-> FALSE, runs |-> 0, after |-> <<>>]

Min(a, b) == IF a < b THEN a ELSE b

\* ------------------------------------------------------------ AudioPlayer
RECURSIVE BufLen(_)
BufLen(buf) == IF buf = <<>> THEN 0 ELSE Head(buf).n + BufLen(Tail(buf))

DropSamples_None(buf, k) == buf

\* self.buffer[k:]
RECURSIVE DropSamples(_, _)
DropSamples(buf, k) ==
    IF k = 0 \/ buf = <<>> THEN buf
    ELSE IF Head(buf).n <= k THEN DropSamples(Tail(buf), k - Head(buf).n)
    ELSE <<[Head(buf) EXCEPT !.n = @ - k]>> \o Tail(buf)

\* self.buffer[:k]
RECURSIVE TakeSamples(_, _)
TakeSamples(buf, k) ==
    IF k = 0 \/ buf = <<>> THEN <<>>
    ELSE IF Head(buf).n <= k
         THEN <<Head(buf)>> \o TakeSamples(Tail(buf), k - Head(buf).n)
    ELSE <<[Head(buf) EXCEPT !.n = k]>>

\* np.frombuffer(audio_bytes, dtype='<i2'): two bytes per sample
SamplesOf(bytes) == bytes \div 2

\* np.concatenate((self.buffer, audio_array))
Concatenate(buf, rid, n) ==
    IF n = 0 THEN buf
    ELSE IF buf # <<>> /\ buf[Len(buf)].response_id = rid
         THEN [buf EXCEPT ![Len(buf)].n = @ + n]
         ELSE Append(buf, [response_id |-> rid, n |-> n])

\* --------------------------------------------- binary64 (Python float) arithmetic
\* A float is [m, e]: m its significant bits, most significant first (<<>> is
\* zero, otherwise m[1] = 1 and Len(m) <= 53), and e the binary exponent of
\* the last bit of m.  Python's int / int, float * int and int(float) are the
\* correctly rounded (round half to even) IEEE 754 operations.  Every
\* intermediate integer stays below 2^31.
MantissaBits == 53

\* number of binary digits of n, 0 <= n < 2^30
BitWidth(n) == CHOOSE w \in 0..30 : n < 2^w /\ (w = 0 \/ 2^(w - 1) <= n)

NatBits(n) == [i \in 1..BitWidth(n) |-> (n \div 2^(BitWidth(n) - i)) % 2]

RECURSIVE BitsToNat(_)
BitsToNat(bits) ==
    IF Len(bits) = 0 THEN 0
    ELSE IF Len(bits) = 1 THEN bits[1]
    ELSE LET h == Len(bits) \div 2
         IN  BitsToNat(SubSeq(bits, 1, h)) * 2^(Len(bits) - h)
             + BitsToNat(SubSeq(bits, h + 1, Len(bits)))

\* bits + 1
BitsInc(bits) ==
    IF \A i \in 1..Len(bits) : bits[i] = 1
    THEN <<1>> \o [i \in 1..Len(bits) |-> 0]
    ELSE LET p == CHOOSE i \in 1..Len(bits) :
                      bits[i] = 0 /\ \A j \in (i + 1)..Len(bits) : bits[j] = 1
         IN  [i \in 1..Len(bits) |-> IF i < p THEN bits[i] ELSE IF i = p THEN 1 ELSE 0]

\* round the exact value (bits, e, plus a nonzero tail when sticky) to 53 bits
RoundToDouble(bits, e, sticky) ==
    IF Len(bits) <= MantissaBits THEN [m |-> bits, e |-> e]
    ELSE LET keep == SubSeq(bits, 1, MantissaBits)
             rest == SubSeq(bits, MantissaBits + 1, Len(bits))
             guard == rest[1]
             tail == sticky \/ \E i \in 2..Len(rest) : rest[i] = 1
             up == guard = 1 /\ (tail \/ keep[MantissaBits] = 1)
             e2 == e + Len(rest)
             inc == BitsInc(keep)
         IN  IF ~up THEN [m |-> keep, e |-> e2]
             ELSE IF Len(inc) > MantissaBits
                  THEN [m |-> SubSeq(inc, 1, MantissaBits), e |-> e2 + 1]
                  ELSE [m |-> inc, e |-> e2]

\* 2^i mod d, for d * d < 2^30
RECURSIVE Pow2Mod(_, _)
Pow2Mod(i, d) ==
    IF i = 0 THEN 1 % d
    ELSE LET h == Pow2Mod(i \div 2, d)
         IN  (((h * h) % d) * (IF i % 2 = 1 THEN 2 ELSE 1)) % d

\* (x * 2^i) mod d: the remainder of the long division x / d after i bits
FracRem(x, d, i) == ((x % d) * Pow2Mod(i, d)) % d

\* the i-th bit of x / d after the binary point, i >= 1
FracBit(x, d, i) == (2 * FracRem(x, d, i - 1)) \div d

\* x / d for integers 0 <= x < 2^30, 0 < d, d * d < 2^30: the quotient's
\* first 54 significant bits (53 and the guard bit), then rounded
FloatDiv(x, d) ==
    IF x = 0 THEN [m |-> <<>>, e |-> 0]
    ELSE LET ib == NatBits(x \div d)
             z == IF ib # <<>> THEN 0
                  ELSE CHOOSE i \in 0..30 :
                           /\ FracBit(x, d, i + 1) = 1
                           /\ \A j \in 1..i : FracBit(x, d, j) = 0
             k == z + (MantissaBits + 1) - Len(ib)
             bits == ib \o [i \in 1..(k - z) |-> FracBit(x, d, z + i)]
         IN  RoundToDouble(bits, 0 - k, FracRem(x, d, k) # 0)

\* the n-bit binary form of v, 0 <= v < 2^n
FixedBits(v, n) == [i \in 1..n |-> (v \div 2^(n - i)) % 2]

\* bits without its leading zeros
StripZeros(bits) ==
    IF \A i \in 1..Len(bits) : bits[i] = 0 THEN <<>>
    ELSE LET p == CHOOSE i \in 1..Len(bits) :
                      bits[i] = 1 /\ \A j \in 1..(i - 1) : bits[j] = 0
         IN  SubSeq(bits, p, Len(bits))

\* the bits of value(bits) * k, for Len(bits) <= 53 and 0 < k < 2^10: the
\* product is formed on limbs of 20 bits, least significant first, so that
\* no intermediate integer reaches 2^31
MulBits(bits, k) ==
    LET n == Len(bits)
        lo == SubSeq(bits, IF n > 20 THEN n - 20 + 1 ELSE 1, n)
        r1 == SubSeq(bits, 1, n - Len(lo))
        mid == SubSeq(r1, IF Len(r1) > 20 THEN Len(r1) - 20 + 1 ELSE 1,
                      Len(r1))
        hi == SubSeq(r1, 1, Len(r1) - Len(mid))
        pc == BitsToNat(lo) * k
        pb == BitsToNat(mid) * k + pc \div 2^20
        pa == BitsToNat(hi) * k + pb \div 2^20
    IN  StripZeros(NatBits(pa) \o FixedBits(pb % 2^20, 20)
                   \o FixedBits(pc % 2^20, 20))

\* f * k for an integer 0 < k < 2^10 (a float holds it exactly)
FloatMulInt(f, k) ==
    IF f.m = <<>> THEN f ELSE RoundToDouble(MulBits(f.m, k), f.e, FALSE)

\* int(f): truncation, for 0 <= f < 2^30
FloatToInt(f) ==
    IF f.e >= 0 THEN BitsToNat(f.m \o [i \in 1..f.e |-> 0])
    ELSE IF Len(f.m) <= 0 - f.e THEN 0
    ELSE BitsToNat(SubSeq(f.m, 1, Len(f.m) + f.e))

\* int((total_samples_played / self.audio_sample_rate) * 1000)
AudioEndMs(total) ==
    FloatToInt(FloatMulInt(FloatDiv(total, audio_sample_rate), 1000))

\* ------------------------------------------------- outbound control messages
\* send_response_cancel: the message sent, if any
CancelMsgs ==
    IF current_response_id # None
    THEN <<[type |-> "response.cancel", response_id |-> current_response_id]>>
    ELSE <<>>

\* send_response_cancel without line 372: the response is not marked
StatesAfterCancel_Unmarked == response_states

\* send_response_cancel: response_states after it
StatesAfterCancel ==
    IF current_response_id # None
    THEN [response_states EXCEPT ![current_response_id] = "canceled"]
    ELSE response_states

\* send_conversation_item_truncate without the test of line 317
TruncateMsgs_Always(total) ==
    <<[type |-> "conversation.item.truncate", item_id |-> current_item_id,
       content_index |-> 0, audio_end_ms |-> AudioEndMs(total),
       interrupted |-> current_response_id]>>

\* send_conversation_item_truncate(total): the message sent, if any.  The
\* field interrupted is not on the wire: it records the response that was
\* current when playback was stopped.
TruncateMsgs(total) ==
    IF current_item_id # None
    THEN <<[type |-> "conversation.item.truncate", item_id |-> current_item_id,
            content_index |-> 0, audio_end_ms |-> AudioEndMs(total),
            interrupted |-> current_response_id]>>
    ELSE <<>>

\* ------------------------------------------------------- AudioPlayer methods
player_stop_Zeroing ==
    /\ stream_active' = FALSE
    /\ buffer' = <<>>
    /\ playback_finished' = TRUE
    /\ total_samples_played' = 0

player_stop ==
    /\ stream_active' = FALSE
    /\ buffer' = <<>>
    /\ playback_finished' = TRUE
    /\ UNCHANGED total_samples_played

player_reset ==
    /\ stream_active' = TRUE
    /\ buffer' = <<>>
    /\ total_samples_played' = 0
    /\ playback_finished' = FALSE

player_write(rid, bytes) ==
    /\ buffer' = Concatenate(buffer, rid, SamplesOf(bytes))
    /\ playback_finished' = FALSE
    /\ UNCHANGED <<total_samples_played, stream_active>>

\* ---------------------------------------------------------------- on_message
Gate_Open(rid) == FALSE

\* lines 84-87: an event of a response that is neither active nor unknown
Gate(rid) == rid # None /\ response_states[rid] \notin {"active", "none"}

IsActive(rid) == response_states[rid] = "active"

Received(ev) ==
    /\ nevents < MaxEvents
    /\ nevents' = nevents + 1
    /\ last_event' = ev
    /\ UNCHANGED <<playVars, lifeVars, stepVars>>

\* an event of a type on_message has a branch for
Handled(ev) == Received(ev) /\ UNCHANGED unhandled_event_types

Ignored == UNCHANGED <<clientVars, playerVars>> /\ printed' = NoPrint

\* a step of another thread: no event handled, nothing printed
Quiet ==
    /\ last_event' = NoEvent
    /\ printed' = NoPrint
    /\ UNCHANGED <<lifeVars, stepVars, unhandled_event_types>>

\* connect and start_audio_stream have run: the three threads are in their
\* loops, the connection is open, no player method is in progress
InitThreads ==
    /\ stop_audio = FALSE
    /\ ws_open = TRUE
    /\ record_pc = "next"
    /\ main_pc = "wait"
    /\ process = "running"
    /\ cb_pc = "idle"
    /\ reset_pc = "idle"
    /\ outdata = NoOut
    /\ snapshot = 0
    /\ reset_state = NoReset

Init ==
    /\ response_states = [r \in Responses |-> "none"]
    /\ current_response_id = None
    /\ current_item_id = None
    /\ audio_queue = <<>>
    /\ assistant_speaking = FALSE
    /\ assistant_audio_playing = FALSE
    /\ text_buffer = <<>>
    /\ audio_transcript_buffer = <<>>
    /\ buffer = <<>>
    /\ total_samples_played = 0
    /\ playback_finished = FALSE
    /\ stream_active = TRUE
    /\ play_pc = "get"
    /\ play_chunk = NoChunk
    /\ sent = <<>>
    /\ printed = NoPrint
    /\ last_event = NoEvent
    /\ nevents = 0
    /\ superseded = {}
    /\ written = {}
    /\ InitThreads
    /\ unhandled_event_types = {}

\* input_audio_buffer.speech_started
OnSpeechStarted ==
    /\ UNCHANGED historyVars
    /\ Handled([type |-> "input_audio_buffer.speech_started", response_id |-> None,
                playing |-> assistant_audio_playing,
                current |-> current_response_id,
                state |-> IF current_response_id = None THEN "none"
                          ELSE response_states[current_response_id]])
    /\ IF assistant_audio_playing
       THEN /\ sent' = sent \o CancelMsgs \o TruncateMsgs(total_samples_played)
            /\ response_states' = StatesAfterCancel
            /\ player_stop
            /\ audio_queue' = <<>>
            /\ assistant_audio_playing' = FALSE
            /\ printed' = NoPrint
            /\ UNCHANGED <<current_response_id, current_item_id, assistant_speaking,
                           text_buffer, audio_transcript_buffer>>
       ELSE Ignored

\* conversation.item.created
OnItemCreated(role, id) ==
    /\ UNCHANGED historyVars
    /\ Handled([type |-> "conversation.item.created", response_id |-> None,
                role |-> role, id |-> id])
    /\ current_item_id' = IF role = "assistant" THEN id ELSE current_item_id
    /\ printed' = NoPrint
    /\ UNCHANGED <<response_states, current_response_id, audio_queue,
                   assistant_speaking, assistant_audio_playing, text_buffer,
                   audio_transcript_buffer, sent, playerVars>>

\* response.created
OnResponseCreated(rid) ==
    /\ Handled([type |-> "response.created", response_id |-> rid,
                gated |-> Gate(rid), speaking |-> assistant_speaking,
                previous |-> current_response_id])
    /\ IF Gate(rid) THEN Ignored /\ UNCHANGED historyVars
       ELSE /\ superseded' =
                   IF current_response_id \notin {None, rid}
                      /\ IsActive(current_response_id) /\ assistant_audio_playing
                   THEN (superseded \cup {current_response_id}) \ {rid}
                   ELSE superseded \ {rid}
            /\ written' = written \ {rid}
            /\ IF assistant_speaking
               THEN /\ sent' = sent \o TruncateMsgs(total_samples_played)
                    /\ audio_queue' = <<>>
                    /\ assistant_audio_playing' = FALSE
               ELSE UNCHANGED <<sent, audio_queue, assistant_audio_playing>>
            /\ current_response_id' = rid
            /\ response_states' = [response_states EXCEPT ![rid] = "active"]
            /\ player_reset
            /\ printed' = NoPrint
            /\ UNCHANGED <<current_item_id, assistant_speaking, text_buffer,
                           audio_transcript_buffer>>

\* response.audio_transcript.delta
OnAudioTranscriptDelta(rid) ==
    /\ UNCHANGED historyVars
    /\ Len(audio_transcript_buffer) < MaxText
    /\ Handled([type |-> "response.audio_transcript.delta", response_id |-> rid,
                state |-> response_states[rid]])
    /\ IF Gate(rid) \/ ~IsActive(rid) THEN Ignored
       ELSE /\ audio_transcript_buffer' = Append(audio_transcript_buffer, rid)
            /\ printed' = NoPrint
            /\ UNCHANGED <<response_states, current_response_id, current_item_id,
                           audio_queue, assistant_speaking, assistant_audio_playing,
                           text_buffer, sent, playerVars>>

\* response.audio.done
OnAudioDone(rid) ==
    /\ UNCHANGED historyVars
    /\ Handled([type |-> "response.audio.done", response_id |-> rid])
    /\ IF Gate(rid) THEN Ignored
       ELSE /\ assistant_speaking' = FALSE
            /\ printed' = NoPrint
            /\ UNCHANGED <<response_states, current_response_id, current_item_id,
                           audio_queue, assistant_audio_playing, text_buffer,
                           audio_transcript_buffer, sent, playerVars>>

\* response.text.delta
OnTextDelta(rid) ==
    /\ UNCHANGED historyVars
    /\ Len(text_buffer) < MaxText
    /\ Handled([type |-> "response.text.delta", response_id |-> rid,
                state |-> response_states[rid]])
    /\ IF Gate(rid) \/ ~IsActive(rid) THEN Ignored
       ELSE /\ text_buffer' = Append(text_buffer, rid)
            /\ printed' = NoPrint
            /\ UNCHANGED <<response_states, current_response_id, current_item_id,
                           audio_queue, assistant_speaking, assistant_audio_playing,
                           audio_transcript_buffer, sent, playerVars>>

\* response.text.done
OnTextDone(rid) ==
    /\ UNCHANGED historyVars
    /\ Handled([type |-> "response.text.done", response_id |-> rid,
                gated |-> Gate(rid)])
    /\ IF Gate(rid) THEN Ignored
       ELSE /\ printed' = [kind |-> "text", response_id |-> rid,
                           content |-> text_buffer]
            /\ text_buffer' = <<>>
            /\ UNCHANGED <<response_states, current_response_id, current_item_id,
                           audio_queue, assistant_speaking, assistant_audio_playing,
                           audio_transcript_buffer, sent, playerVars>>

\* response.audio_transcript.done
OnAudioTranscriptDone(rid) ==
    /\ UNCHANGED historyVars
    /\ Handled([type |-> "response.audio_transcript.done", response_id |-> rid,
                gated |-> Gate(rid)])
    /\ IF Gate(rid) THEN Ignored
       ELSE /\ printed' = [kind |-> "transcript", response_id |-> rid,
                           content |-> audio_transcript_buffer]
            /\ audio_transcript_buffer' = <<>>
            /\ UNCHANGED <<response_states, current_response_id, current_item_id,
                           audio_queue, assistant_speaking, assistant_audio_playing,
                           text_buffer, sent, playerVars>>

\* response.audio.delta handled without consulting response_states (no gate
\* at line 85, no check at line 207)
OnAudioDelta_Unchecked(rid, bytes) ==
    /\ UNCHANGED historyVars
    /\ Len(audio_queue) < MaxQueue
    /\ Handled([type |-> "response.audio.delta", response_id |-> rid,
                state |-> response_states[rid], bytes |-> bytes])
    /\ IF bytes = 0 THEN Ignored
       ELSE /\ audio_queue' = Append(audio_queue, [response_id |-> rid, bytes |-> bytes])
            /\ assistant_speaking' = TRUE
            /\ printed' = NoPrint
            /\ UNCHANGED <<response_states, current_response_id, current_item_id,
                           assistant_audio_playing, text_buffer,
                           audio_transcript_buffer, sent, playerVars>>

\* response.audio.delta; bytes is the length of the decoded delta
OnAudioDelta(rid, bytes) ==
    /\ UNCHANGED historyVars
    /\ Len(audio_queue) < MaxQueue
    /\ Handled([type |-> "response.audio.delta", response_id |-> rid,
                state |-> response_states[rid], bytes |-> bytes])
    /\ IF Gate(rid) \/ ~IsActive(rid) \/ bytes = 0 THEN Ignored
       ELSE /\ audio_queue' = Append(audio_queue, [response_id |-> rid, bytes |-> bytes])
            /\ assistant_speaking' = TRUE
            /\ printed' = NoPrint
            /\ UNCHANGED <<response_states, current_response_id, current_item_id,
                           assistant_audio_playing, text_buffer,
                           audio_transcript_buffer, sent, playerVars>>

\* response.content_part.done; text: the part is of type text, with a text
OnContentPartDone(rid, text) ==
    /\ UNCHANGED historyVars
    /\ Len(text_buffer) < MaxText
    /\ Handled([type |-> "response.content_part.done", response_id |-> rid,
                state |-> response_states[rid]])
    /\ IF Gate(rid) \/ ~IsActive(rid) \/ ~text THEN Ignored
       ELSE /\ text_buffer' = Append(text_buffer, rid)
            /\ printed' = NoPrint
            /\ UNCHANGED <<response_states, current_response_id, current_item_id,
                           audio_queue, assistant_speaking, assistant_audio_playing,
                           audio_transcript_buffer, sent, playerVars>>

\* response.output_item.done
OnOutputItemDone(rid) ==
    /\ UNCHANGED historyVars
    /\ Handled([type |-> "response.output_item.done", response_id |-> rid,
                gated |-> Gate(rid) \/ ~IsActive(rid)])
    /\ IF Gate(rid) \/ ~IsActive(rid) THEN Ignored
       ELSE /\ IF text_buffer # <<>>
               THEN /\ printed' = [kind |-> "item", response_id |-> rid,
                                   content |-> text_buffer]
                    /\ text_buffer' = <<>>
               ELSE printed' = NoPrint /\ UNCHANGED text_buffer
            /\ response_states' = [response_states EXCEPT ![rid] = "completed"]
            /\ UNCHANGED <<current_response_id, current_item_id, audio_queue,
                           assistant_speaking, assistant_audio_playing,
                           audio_transcript_buffer, sent, playerVars>>

\* response.done
OnResponseDone(rid, status) ==
    /\ UNCHANGED historyVars
    /\ Handled([type |-> "response.done", response_id |-> rid, status |-> status,
                state |-> response_states[rid]])
    /\ IF Gate(rid) \/ response_states[rid] = "none" THEN Ignored
       ELSE /\ response_states' = [response_states EXCEPT ![rid] = status]
            /\ printed' = NoPrint
            /\ UNCHANGED <<current_response_id, current_item_id, audio_queue,
                           assistant_speaking, assistant_audio_playing, text_buffer,
                           audio_transcript_buffer, sent, playerVars>>

\* lines 251-255 without the add of line 254
OnUnhandled_Forgotten(type, rid) ==
    /\ UNCHANGED historyVars
    /\ Received([type |-> type, response_id |-> rid,
                 gated |-> Gate(rid),
                 logged |-> ~Gate(rid) /\ type \notin unhandled_event_types])
    /\ UNCHANGED unhandled_event_types
    /\ Ignored

\* lines 251-255: an event of unrecognized type; rid is the response id it
\* carries, None if it carries none
OnUnhandled(type, rid) ==
    /\ UNCHANGED historyVars
    /\ Received([type |-> type, response_id |-> rid,
                 gated |-> Gate(rid),
                 logged |-> ~Gate(rid) /\ type \notin unhandled_event_types])
    /\ unhandled_event_types' =
         IF Gate(rid) THEN unhandled_event_types
         ELSE unhandled_event_types \cup {type}
    /\ Ignored

\* -------------------------------------------------------- _play_received_audio
\* line 337: audio_queue.get returns a fragment
PlayGet ==
    /\ UNCHANGED historyVars
    /\ play_pc = "get"
    /\ audio_queue # <<>>
    /\ play_chunk' = Head(audio_queue)
    /\ audio_queue' = Tail(audio_queue)
    /\ play_pc' = "check_current"
    /\ UNCHANGED <<response_states, current_response_id, current_item_id,
                   assistant_speaking, assistant_audio_playing, text_buffer,
                   audio_transcript_buffer, sent, playerVars, nevents>>
    /\ Quiet

\* lines 348-353: audio_queue.get times out
PlayEmpty ==
    /\ UNCHANGED historyVars
    /\ play_pc = "get"
    /\ audio_queue = <<>>
    /\ playback_finished
    /\ assistant_audio_playing
    /\ assistant_audio_playing' = FALSE
    /\ UNCHANGED <<response_states, current_response_id, current_item_id,
                   audio_queue, assistant_speaking, text_buffer,
                   audio_transcript_buffer, sent, playerVars, playVars,
                   nevents>>
    /\ Quiet

\* lines 339-340
PlayCheckCurrent ==
    /\ UNCHANGED historyVars
    /\ play_pc = "check_current"
    /\ IF play_chunk.response_id # current_response_id
       THEN play_pc' = "get" /\ play_chunk' = NoChunk
       ELSE play_pc' = "check_state" /\ UNCHANGED play_chunk
    /\ UNCHANGED <<clientVars, playerVars, nevents>>
    /\ Quiet

\* lines 342-343
PlayCheckState ==
    /\ UNCHANGED historyVars
    /\ play_pc = "check_state"
    /\ IF ~IsActive(play_chunk.response_id)
       THEN play_pc' = "get" /\ play_chunk' = NoChunk
       ELSE play_pc' = "write" /\ UNCHANGED play_chunk
    /\ UNCHANGED <<clientVars, playerVars, nevents>>
    /\ Quiet

\* lines 344-345
PlayWrite ==
    /\ play_pc = "write"
    /\ player_write(play_chunk.response_id, play_chunk.bytes)
    /\ play_pc' = "set_playing"
    /\ written' = written \cup {play_chunk.response_id}
    /\ UNCHANGED <<clientVars, play_chunk, nevents, superseded>>
    /\ Quiet

\* line 347
PlaySetPlaying ==
    /\ UNCHANGED historyVars
    /\ play_pc = "set_playing"
    /\ assistant_audio_playing' = TRUE
    /\ play_pc' = "get"
    /\ play_chunk' = NoChunk
    /\ UNCHANGED <<response_states, current_response_id, current_item_id,
                   audio_queue, assistant_speaking, text_buffer,
                   audio_transcript_buffer, sent, playerVars, nevents>>
    /\ Quiet

\* ------------------------------------------------------ AudioPlayer._callback
\* one call by the device, frames = blocksize
Callback ==
    /\ UNCHANGED historyVars
    /\ stream_active
    /\ total_samples_played < MaxCallbacks * blocksize * channels
    /\ LET num_samples == blocksize * channels
           samples_to_play == Min(BufLen(buffer), num_samples)
       IN  /\ buffer' = DropSamples(buffer, samples_to_play)
           /\ playback_finished' = (BufLen(buffer') = 0 /\ samples_to_play = 0)
           /\ total_samples_played' = total_samples_played + num_samples
    /\ UNCHANGED <<clientVars, stream_active, playVars, nevents>>
    /\ Quiet

OnMessage ==
    \/ OnSpeechStarted
    \/ \E role \in Roles, id \in Items : OnItemCreated(role, id)
    \/ \E rid \in Responses : OnResponseCreated(rid)
    \/ \E rid \in Responses : OnAudioTranscriptDelta(rid)
    \/ \E rid \in Responses : OnAudioDone(rid)
    \/ \E rid \in Responses : OnTextDelta(rid)
    \/ \E rid \in Responses : OnTextDone(rid)
    \/ \E rid \in Responses : OnAudioTranscriptDone(rid)
    \/ \E rid \in Responses, bytes \in AudioDeltas : OnAudioDelta(rid, bytes)
    \/ \E rid \in Responses, text \in BOOLEAN : OnContentPartDone(rid, text)
    \/ \E rid \in Responses : OnOutputItemDone(rid)
    \/ \E rid \in Responses, status \in Statuses : OnResponseDone(rid, status)
    \/ OnUnhandled("input_audio_buffer.cleared", None)
    \/ \E rid \in Responses :
          OnUnhandled("response.function_call_arguments.delta", rid)

PlayLoop ==
    \/ PlayGet
    \/ PlayEmpty
    \/ PlayCheckCurrent
    \/ PlayCheckState
    \/ PlayWrite
    \/ PlaySetPlaying

Next == OnMessage \/ PlayLoop \/ Callback

Spec == Init /\ [][Next]_vars

\* ======================================================================
\* Properties
\* ======================================================================
\* the step is on_message handling an event of type t
HandledStep(t) == nevents' = nevents + 1 /\ last_event'.type = t

FragmentTypes == {"response.audio.delta", "response.text.delta",
                  "response.audio_transcript.delta"}

\* the step is on_message handling an audio, text or transcript fragment of r
FragmentStep(r) ==
    /\ nevents' = nevents + 1
    /\ last_event'.type \in FragmentTypes
    /\ last_event'.response_id = r

\* the step is the playback thread's player.write
WriteStep == play_pc = "write" /\ play_pc' = "set_playing"

\* C1: AudioPlayer.write is never executed for a fragment whose response is
\* not 'active' at the moment of the write, and no delta is appended to
\* text_buffer or audio_transcript_buffer unless its response is 'active' at
\* the moment of the append.
C1_OnlyActiveDelivered ==
    [][/\ WriteStep => IsActive(play_chunk.response_id)
       /\ Len(text_buffer') > Len(text_buffer)
            => IsActive(text_buffer'[Len(text_buffer')])
       /\ Len(audio_transcript_buffer') > Len(audio_transcript_buffer)
            => IsActive(audio_transcript_buffer'[Len(audio_transcript_buffer')])
      ]_vars

\* C2 (Scenario D): when response.created for R2 is handled while R1 is active
\* with its audio playing, R1 is 'canceled' and the player reset when the
\* handler returns; afterwards every fragment tagged R1 is dropped (not
\* enqueued, not appended, not written to the player) and fragments tagged R2
\* are accepted.
C2_ScenarioD ==
    [][/\ ( /\ HandledStep("response.created")
            /\ ~last_event'.gated
            /\ current_response_id \notin {None, last_event'.response_id}
            /\ IsActive(current_response_id)
            /\ assistant_audio_playing )
          => /\ response_states'[current_response_id] = "canceled"
             /\ buffer' = <<>>
             /\ total_samples_played' = 0
       /\ \A r \in superseded :
            /\ FragmentStep(r)
                 => UNCHANGED <<audio_queue, text_buffer, audio_transcript_buffer>>
            /\ WriteStep => play_chunk.response_id # r
       /\ \A r \in Responses :
            ( r = current_response_id /\ IsActive(r) /\ r \notin superseded )
            => /\ ( HandledStep("response.audio.delta") /\ last_event'.response_id = r
                    /\ last_event'.bytes > 0 )
                  => audio_queue' = Append(audio_queue,
                                          [response_id |-> r, bytes |-> last_event'.bytes])
               /\ ( HandledStep("response.text.delta") /\ last_event'.response_id = r )
                  => text_buffer' = Append(text_buffer, r)
      ]_vars

\* ---------------------------------------------------------------------
\* The interruption after a long stretch of playback: R1 was created, the
\* assistant item I1 announced, R1's audio written and still playing, and
\* the device has called _callback k times since the reset, k <= MaxRendered.
InitPlaying ==
    /\ response_states = [r \in Responses |-> IF r = "R1" THEN "active" ELSE "none"]
    /\ current_response_id = "R1"
    /\ current_item_id = "I1"
    /\ audio_queue = <<>>
    /\ assistant_speaking = TRUE
    /\ assistant_audio_playing = TRUE
    /\ text_buffer = <<>>
    /\ audio_transcript_buffer = <<>>
    /\ buffer = <<[response_id |-> "R1", n |-> blocksize]>>
    /\ total_samples_played \in {k * blocksize * channels : k \in 0..MaxRendered}
    /\ playback_finished = FALSE
    /\ stream_active = TRUE
    /\ play_pc = "get"
    /\ play_chunk = NoChunk
    /\ sent = <<>>
    /\ printed = NoPrint
    /\ last_event = NoEvent
    /\ nevents = 0
    /\ superseded = {}
    /\ written = {"R1"}
    /\ InitThreads
    /\ unhandled_event_types = {}

NextInterrupt ==
    \/ OnSpeechStarted
    \/ \E rid \in Responses : OnResponseCreated(rid)

SpecInterrupt == InitPlaying /\ [][NextInterrupt]_vars

\* floor(samples * 1000 / audio_sample_rate), in integers below 2^31
ExactMs(samples) ==
    (samples \div audio_sample_rate) * 1000
    + ((samples % audio_sample_rate) * 1000) \div audio_sample_rate

\* the messages the step sends
NewlySent == {sent'[i] : i \in (Len(sent) + 1)..Len(sent')}

\* C3: every conversation.item.truncate message carries audio_end_ms =
\* floor(rendered_samples * 1000 / 24000), rendered_samples being the
\* player's counter when playback was stopped, whatever is still pending.
C3_TruncateIsFloor ==
    [][\A m \in NewlySent :
          m.type = "conversation.item.truncate"
          => m.audio_end_ms = ExactMs(total_samples_played)]_vars

\* C4 (Scenario C): a user-speech-started event handled while no response is
\* 'active' sends no response.cancel and no conversation.item.truncate and
\* changes no response state.
C4_NoOpWithoutActive ==
    [][( /\ HandledStep("input_audio_buffer.speech_started")
         /\ \A r \in Responses : ~IsActive(r) )
       => UNCHANGED <<sent, response_states>>]_vars

\* C5: response.created for R zeroes the rendered-sample counter and empties
\* the pending buffer before any fragment tagged R is put on audio_queue or
\* written, and the player buffer holds no sample of another response when
\* the first fragment of R is written.
C5_ResetBeforeFragments ==
    [][/\ ( HandledStep("response.created") /\ ~last_event'.gated )
          => total_samples_played' = 0 /\ buffer' = <<>>
       /\ Len(audio_queue') > Len(audio_queue)
          => response_states[audio_queue'[Len(audio_queue')].response_id] # "none"
       /\ ( WriteStep /\ play_chunk.response_id \notin written )
          => \A i \in 1..Len(buffer) :
                 buffer[i].response_id = play_chunk.response_id
      ]_vars

\* C6 (Scenario B): handling an audio fragment tagged with a 'canceled'
\* response changes neither the player buffer, the rendered-sample counter,
\* audio_queue, response_states, the text accumulators nor the
\* assistant_speaking / assistant_audio_playing flags, and sends nothing.
C6_StaleAudioFragmentDropped ==
    [][\A r \in Responses :
          ( /\ HandledStep("response.audio.delta")
            /\ last_event'.response_id = r
            /\ response_states[r] = "canceled" )
          => UNCHANGED <<buffer, total_samples_played, audio_queue, response_states,
                         text_buffer, audio_transcript_buffer, assistant_speaking,
                         assistant_audio_playing, sent>>]_vars

\* a non-empty audio fragment of a canceled response has been handled
C6_Witness ==
    /\ last_event.type = "response.audio.delta"
    /\ last_event.state = "canceled"
    /\ last_event.bytes > 0

ActiveResponses == {r \in Responses : IsActive(r)}

\* C7: at most one response is 'active' in every reachable state, and once
\* response.created for R2 has been handled R2 is the only active response.
C7_AtMostOneActive ==
    /\ Cardinality(ActiveResponses) <= 1
    /\ ( last_event.type = "response.created" /\ ~last_event.gated )
       => ActiveResponses = {last_event.response_id}

\* C8: an accumulator flushed for display for response R (text.done,
\* audio_transcript.done, output_item.done) holds only fragments tagged R.
C8_FlushIsResponseScoped ==
    printed.kind # "none"
    => \A i \in 1..Len(printed.content) : printed.content[i] = printed.response_id

\* C9: at most one conversation.item.truncate and at most one response.cancel
\* message is sent for any one response id.
C9_OneTruncateOneCancel ==
    \A r \in Responses :
        /\ Cardinality({i \in 1..Len(sent) :
               sent[i].type = "response.cancel" /\ sent[i].response_id = r}) <= 1
        /\ Cardinality({i \in 1..Len(sent) :
               sent[i].type = "conversation.item.truncate"
               /\ sent[i].interrupted = r}) <= 1

\* the interruption of the current response has been carried out by the step
Interrupted ==
    /\ response_states'[current_response_id] = "canceled"
    /\ ~stream_active'
    /\ buffer' = <<>>
    /\ [type |-> "response.cancel", response_id |-> current_response_id] \in NewlySent

\* C10 as stated: a user-speech-started event handled while the current
\* response is 'active' performs the interruption (state 'canceled', player
\* stopped, response.cancel sent), whether or not audio has been written.
C10_InterruptsWheneverActive ==
    [][( /\ HandledStep("input_audio_buffer.speech_started")
         /\ current_response_id # None
         /\ IsActive(current_response_id) )
       => Interrupted]_vars

\* C10 as amended: a user-speech-started event handled while the current
\* response is 'active' and assistant_audio_playing is set performs the
\* interruption (state 'canceled', player stopped, response.cancel sent).
C10_InterruptsWhilePlaying ==
    [][( /\ HandledStep("input_audio_buffer.speech_started")
         /\ current_response_id # None
         /\ IsActive(current_response_id)
         /\ assistant_audio_playing )
       => Interrupted]_vars

\* user-speech-started has been handled with the current response active and
\* its audio playing, and the response is now canceled
C10_Witness ==
    /\ last_event.type = "input_audio_buffer.speech_started"
    /\ last_event.playing
    /\ last_event.state = "active"
    /\ response_states[last_event.current] = "canceled"
    /\ ~stream_active

\* ======================================================================
\* The AudioPlayer followed lock section by lock section.  Its callers in
\* the client hold player_lock, so write, stop and reset never overlap one
\* another; _callback runs on the device thread and takes buffer_lock and
\* total_samples_played_lock only, one after the other.
\* ======================================================================
PlayerState ==
    [buffer |-> buffer, total |-> total_samples_played,
     finished |-> playback_finished, active |-> stream_active]

\* a step of the player alone
PlayerStep ==
    /\ UNCHANGED <<clientVars, playVars, historyVars, lifeVars, nevents,
                   unhandled_event_types>>
    /\ last_event' = NoEvent
    /\ printed' = NoPrint

\* stream.stop() returns once the running callback has returned
StreamHalted == stream_active => cb_pc = "idle"

\* AudioPlayer.write, called with player_lock held
Write(rid, bytes) ==
    /\ reset_pc = "idle"
    /\ BufLen(buffer) + SamplesOf(bytes) <= MaxQueue * blocksize * 2
    /\ player_write(rid, bytes)
    /\ outdata' = NoOut
    /\ reset_state' = NoReset
    /\ UNCHANGED <<cb_pc, reset_pc, snapshot>>
    /\ PlayerStep

\* stop_assistant_playback lines 308-310: stop, then the counter is read
StopAndRead ==
    /\ reset_pc = "idle"
    /\ StreamHalted
    /\ player_stop
    /\ snapshot' = total_samples_played
    /\ outdata' = NoOut
    /\ reset_state' = NoReset
    /\ UNCHANGED <<cb_pc, reset_pc>>
    /\ PlayerStep

ResetCreate_Toggle ==
    /\ reset_pc = "idle"
    /\ StreamHalted
    /\ stream_active' = ~stream_active
    /\ reset_pc' = "created"
    /\ reset_state' = [reset_state EXCEPT !.during = TRUE]
    /\ outdata' = NoOut
    /\ UNCHANGED <<buffer, total_samples_played, playback_finished, cb_pc, snapshot>>
    /\ PlayerStep

\* reset lines 130-133: the old stream is stopped and closed, a new one started
ResetCreate ==
    /\ reset_pc = "idle"
    /\ StreamHalted
    /\ stream_active' = TRUE
    /\ reset_pc' = "created"
    /\ reset_state' = [reset_state EXCEPT !.during = TRUE]
    /\ outdata' = NoOut
    /\ UNCHANGED <<buffer, total_samples_played, playback_finished, cb_pc, snapshot>>
    /\ PlayerStep

\* reset lines 134-135
ResetClear ==
    /\ reset_pc = "created"
    /\ buffer' = <<>>
    /\ reset_pc' = "cleared"
    /\ outdata' = NoOut
    /\ UNCHANGED <<total_samples_played, playback_finished, stream_active, cb_pc,
                   snapshot, reset_state>>
    /\ PlayerStep

\* reset lines 136-137
ResetZero ==
    /\ reset_pc = "cleared"
    /\ total_samples_played' = 0
    /\ reset_pc' = "zeroed"
    /\ outdata' = NoOut
    /\ UNCHANGED <<buffer, playback_finished, stream_active, cb_pc, snapshot,
                   reset_state>>
    /\ PlayerStep

\* reset line 138
ResetFinish ==
    /\ reset_pc = "zeroed"
    /\ playback_finished' = FALSE
    /\ reset_pc' = "idle"
    /\ outdata' = NoOut
    /\ UNCHANGED <<buffer, total_samples_played, stream_active, cb_pc, snapshot>>
    /\ reset_state' =
         IF reset_state.during
         THEN [during |-> FALSE, runs |-> Min(reset_state.runs + 1, 2),
               after |-> <<PlayerState'>>]
         ELSE NoReset
    /\ PlayerStep

\* _callback lines 93-111, under buffer_lock
CallbackBuffer ==
    /\ stream_active
    /\ cb_pc = "idle"
    /\ total_samples_played < MaxCallbacks * blocksize * channels
    /\ LET num_samples == blocksize * channels
           samples_to_play == Min(BufLen(buffer), num_samples)
       IN  /\ outdata' = [played |-> TakeSamples(buffer, samples_to_play),
                          silence |-> num_samples - samples_to_play]
           /\ buffer' = DropSamples(buffer, samples_to_play)
           /\ playback_finished' = (BufLen(buffer') = 0 /\ samples_to_play = 0)
    /\ cb_pc' = "count"
    /\ reset_state' = NoReset
    /\ UNCHANGED <<total_samples_played, stream_active, reset_pc, snapshot>>
    /\ PlayerStep

\* _callback lines 114-116, under total_samples_played_lock
CallbackCount ==
    /\ cb_pc = "count"
    /\ total_samples_played' = total_samples_played + blocksize * channels
    /\ cb_pc' = "idle"
    /\ outdata' = NoOut
    /\ reset_state' = NoReset
    /\ UNCHANGED <<buffer, playback_finished, stream_active, reset_pc, snapshot>>
    /\ PlayerStep

NextPlayer ==
    \/ \E rid \in Responses, bytes \in AudioDeltas : Write(rid, bytes)
    \/ StopAndRead
    \/ ResetCreate
    \/ ResetClear
    \/ ResetZero
    \/ ResetFinish
    \/ CallbackBuffer
    \/ CallbackCount

SpecPlayer == Init /\ [][NextPlayer]_vars

EmptyRunning == [buffer |-> <<>>, total |-> 0, finished |-> FALSE, active |-> TRUE]

\* C11: two calls of reset() in a row, no render callback or write stepping
\* in from the start of the first to the end of the second, leave the player
\* as one call leaves it: buffer empty, counter 0, playback_finished clear,
\* stream running.
C11_ResetIdempotent ==
    [][( /\ reset_pc = "zeroed" /\ reset_pc' = "idle"
         /\ reset_state.during
         /\ reset_state.after # <<>> )
       => /\ PlayerState' = reset_state.after[1]
          /\ PlayerState' = EmptyRunning]_vars

\* two resets in a row have completed
C11_Witness == reset_state.runs = 2 /\ reset_pc = "idle"

\* C12: the rendered-sample counter decreases only when reset() zeroes it;
\* only a render callback increases it; write() and stop() leave it as it
\* is; from stop() to the next reset() it does not move, and the value read
\* after stop() is that value.
C12_CounterMonotonic ==
    [][/\ total_samples_played' < total_samples_played
          => reset_pc = "cleared" /\ reset_pc' = "zeroed" /\ total_samples_played' = 0
       /\ ( cb_pc = "count" /\ cb_pc' = "idle" )
          => total_samples_played' > total_samples_played
       /\ ( cb_pc' = cb_pc /\ reset_pc' = reset_pc )
          => total_samples_played' = total_samples_played
       /\ ( ~stream_active /\ ~stream_active' )
          => total_samples_played' = total_samples_played
       /\ ( stream_active /\ ~stream_active' )
          => snapshot' = total_samples_played
             /\ total_samples_played' = total_samples_played
      ]_vars

\* the player was stopped after rendering and the counter read
C12_Witness ==
    /\ ~stream_active
    /\ total_samples_played > 0
    /\ snapshot = total_samples_played

\* runs a followed by runs b, adjacent runs of one response merged
Joined(a, b) ==
    IF a = <<>> THEN b
    ELSE IF b = <<>> THEN a
    ELSE IF a[Len(a)].response_id = b[1].response_id
         THEN SubSeq(a, 1, Len(a) - 1)
              \o <<[response_id |-> b[1].response_id, n |-> a[Len(a)].n + b[1].n]>>
              \o Tail(b)
    ELSE a \o b

\* C13: a render callback of n frames takes min(n, len(buffer)) samples
\* from the front of the buffer, in order, hands them to the device followed
\* by silence up to n, leaves the rest in order, and adds exactly n to the
\* rendered-sample counter.
C13_CallbackRendersFront ==
    [][/\ ( cb_pc = "idle" /\ cb_pc' = "count" )
          => LET n == blocksize * channels
                 k == IF BufLen(buffer) < n THEN BufLen(buffer) ELSE n
             IN  /\ BufLen(outdata'.played) = k
                 /\ outdata'.silence = n - k
                 /\ BufLen(buffer') = BufLen(buffer) - k
                 /\ Joined(outdata'.played, buffer') = buffer
       /\ ( cb_pc = "count" /\ cb_pc' = "idle" )
          => total_samples_played' = total_samples_played + blocksize * channels
      ]_vars

\* a callback has rendered part of a buffer holding two responses' samples
\* and left the rest
C13_Witness ==
    /\ cb_pc = "count"
    /\ Len(outdata.played) > 0
    /\ buffer # <<>>

\* C14: the player's operations exclude one another: no reset step and no
\* stop / counter read happens while a render callback is between its buffer
\* section and its counter increment, and no render callback runs while a
\* reset is between its first and its last step.
C14_PlayerOperationsExclusive ==
    [][/\ ( reset_pc' # reset_pc \/ (stream_active /\ ~stream_active') )
          => cb_pc = "idle"
       /\ cb_pc' # cb_pc
          => reset_pc = "idle"
      ]_vars


\* ======================================================================
\* The end of the session: the capture thread, the playback thread and the
\* main thread poll stop_audio.  The websocket, capture and playback threads
\* are daemon threads, and main() returns when start_audio_stream returns.
\* ======================================================================
Running == process = "running"

\* a step that handles no event and touches neither the player nor the
\* client's response state
LifeStep ==
    /\ UNCHANGED <<response_states, current_response_id, current_item_id,
                   audio_queue, assistant_speaking, text_buffer,
                   audio_transcript_buffer, sent, nevents, historyVars, stepVars,
                   unhandled_event_types>>
    /\ last_event' = NoEvent
    /\ printed' = NoPrint

\* events received while the connection is open
Receive ==
    /\ Running
    /\ ws_open
    /\ \/ \E rid \in Responses : OnResponseCreated(rid)
       \/ \E rid \in Responses, bytes \in AudioDeltas : OnAudioDelta(rid, bytes)

\* on_error: the error is printed
OnError ==
    /\ Running
    /\ ws_open
    /\ last_event.type # "error"
    /\ last_event' = [type |-> "error", response_id |-> None]
    /\ printed' = NoPrint
    /\ UNCHANGED <<clientVars, playerVars, playVars, historyVars, lifeVars,
                   stepVars, nevents, unhandled_event_types>>

\* on_close: the connection was closed by the remote side or dropped
OnClose ==
    /\ Running
    /\ ws_open
    /\ ws_open' = FALSE
    /\ stop_audio' = TRUE
    /\ UNCHANGED <<record_pc, main_pc, process, assistant_audio_playing,
                   playerVars, playVars>>
    /\ LifeStep

\* record_audio yields the next block of the microphone
RecordNext ==
    /\ Running
    /\ record_pc = "next"
    /\ record_pc' = "check"
    /\ UNCHANGED <<stop_audio, ws_open, main_pc, process, assistant_audio_playing,
                   playerVars, playVars>>
    /\ LifeStep

\* lines 297-299
RecordCheck ==
    /\ Running
    /\ record_pc = "check"
    /\ record_pc' = IF stop_audio THEN "done" ELSE "send"
    /\ UNCHANGED <<stop_audio, ws_open, main_pc, process, assistant_audio_playing,
                   playerVars, playVars>>
    /\ LifeStep

\* line 301: the block is sent; ws.send raises once the connection is closed
\* (lines 302-304)
RecordSend ==
    /\ Running
    /\ record_pc = "send"
    /\ IF ws_open
       THEN record_pc' = "next" /\ UNCHANGED stop_audio
       ELSE record_pc' = "done" /\ stop_audio' = TRUE
    /\ UNCHANGED <<ws_open, main_pc, process, assistant_audio_playing,
                   playerVars, playVars>>
    /\ LifeStep

\* lines 302-304: the input device fails
RecordError ==
    /\ Running
    /\ record_pc = "next"
    /\ record_pc' = "done"
    /\ stop_audio' = TRUE
    /\ UNCHANGED <<ws_open, main_pc, process, assistant_audio_playing,
                   playerVars, playVars>>
    /\ LifeStep

\* line 335: the loop goes on while stop_audio is clear
PlayRunning ==
    /\ Running
    /\ play_pc = "get" => ~stop_audio
    /\ PlayLoop

\* lines 335, 357-360: stop_audio is seen, the loop ends, the finally block runs
PlayExit ==
    /\ Running
    /\ play_pc = "get"
    /\ stop_audio
    /\ player_stop
    /\ assistant_audio_playing' = FALSE
    /\ play_pc' = "done"
    /\ UNCHANGED <<play_chunk, lifeVars>>
    /\ LifeStep

\* lines 354-360: player.write raises
PlayError ==
    /\ Running
    /\ play_pc = "write"
    /\ stop_audio' = TRUE
    /\ player_stop
    /\ assistant_audio_playing' = FALSE
    /\ play_pc' = "done"
    /\ play_chunk' = NoChunk
    /\ UNCHANGED <<ws_open, record_pc, main_pc, process>>
    /\ LifeStep

\* the device calls _callback
Render == Running /\ Callback

\* start_audio_stream lines 287-288: stop_audio is seen
MainExit ==
    /\ Running
    /\ main_pc = "wait"
    /\ stop_audio
    /\ main_pc' = "returned"
    /\ UNCHANGED <<stop_audio, ws_open, record_pc, process, assistant_audio_playing,
                   playerVars, playVars>>
    /\ LifeStep

\* start_audio_stream lines 289-291 and close: KeyboardInterrupt
MainInterrupt ==
    /\ Running
    /\ main_pc = "wait"
    /\ stop_audio' = TRUE
    /\ ws_open' = FALSE
    /\ player_stop
    /\ main_pc' = "returned"
    /\ UNCHANGED <<record_pc, process, assistant_audio_playing, playVars>>
    /\ LifeStep

\* main() returns: the interpreter exits and the daemon threads end where
\* they are
ProcessExit ==
    /\ Running
    /\ main_pc = "returned"
    /\ process' = "exited"
    /\ UNCHANGED <<stop_audio, ws_open, record_pc, main_pc, assistant_audio_playing,
                   playerVars, playVars>>
    /\ LifeStep

NextShutdown ==
    \/ Receive
    \/ OnError
    \/ OnClose
    \/ RecordNext
    \/ RecordCheck
    \/ RecordSend
    \/ RecordError
    \/ PlayRunning
    \/ PlayExit
    \/ PlayError
    \/ Render
    \/ MainExit
    \/ MainInterrupt
    \/ ProcessExit

\* every thread that can take a step eventually takes one, and the
\* microphone keeps delivering blocks
SpecShutdown ==
    /\ Init
    /\ [][NextShutdown]_vars
    /\ WF_vars(RecordNext)
    /\ WF_vars(RecordCheck)
    /\ WF_vars(RecordSend)
    /\ WF_vars(PlayRunning)
    /\ WF_vars(PlayExit)
    /\ WF_vars(MainExit)
    /\ WF_vars(ProcessExit)

LoopsExited == record_pc = "done" /\ play_pc = "done" /\ main_pc = "returned"

\* C15: once the connection is closed stop_audio is set, and from then on
\* the capture loop, the playback loop and the main wait loop each
\* eventually exit, the player being stopped when the playback loop exits.
C15_LoopsExitAfterClose ==
    /\ [](~ws_open => stop_audio)
    /\ [][(play_pc # "done" /\ play_pc' = "done") => ~stream_active']_vars
    /\ (~ws_open ~> LoopsExited)

\* C16: a fatal condition sets stop_audio and the session ends with the
\* player stopped and the transport closed: the three loops are never all
\* stopped with the transport still open or the player still running.
C16_FailureClosesTransport ==
    /\ (record_pc = "done" \/ play_pc = "done") => stop_audio
    /\ LoopsExited => (~ws_open /\ ~stream_active)


\* C17: in an interruption the truncate message goes out before the
\* response.cancel message (state canceled, player stopped and counter
\* read, truncate sent, cancel sent, in that order).
C17_TruncateBeforeCancel ==
    [][\A i, j \in (Len(sent) + 1)..Len(sent') :
          ( /\ sent'[i].type = "conversation.item.truncate"
            /\ sent'[j].type = "response.cancel" )
          => i < j]_vars

\* C18: on response.created the interruption path runs if and only if the
\* prior response is 'active'; with no active prior response the handler
\* sends nothing, makes the new response active and resets the player.
C18_CreatedInterruptsIffActive ==
    [][( HandledStep("response.created") /\ ~last_event'.gated )
       => LET prior == current_response_id
              priorActive == prior # None /\ IsActive(prior)
          IN  /\ last_event'.speaking <=> priorActive
              /\ ~priorActive
                 => /\ sent' = sent
                    /\ response_states'[last_event'.response_id] = "active"
                    /\ buffer' = <<>>
                    /\ total_samples_played' = 0]_vars

\* C19: after response.done with status s for a created response,
\* response_states[id] = s, whether or not output_item.done was handled
\* before; after output_item.done for an active response its state is
\* 'completed' and text_buffer is empty.
C19_TerminalStatusRecorded ==
    [][/\ ( HandledStep("response.done") /\ last_event'.state # "none" )
          => response_states'[last_event'.response_id] = last_event'.status
       /\ ( /\ HandledStep("response.output_item.done")
            /\ IsActive(last_event'.response_id) )
          => /\ response_states'[last_event'.response_id] = "completed"
             /\ text_buffer' = <<>>]_vars

\* C20: a response whose state is neither unknown nor 'active' never
\* becomes 'active' again, whatever event is handled.
C20_NeverResurrected ==
    [][\A r \in Responses :
          response_states[r] \notin {"none", "active"}
          => response_states'[r] # "active"]_vars

\* response.created has been handled for a response that was already
\* canceled or completed
C20_Witness ==
    /\ last_event.type = "response.created"
    /\ last_event.gated
    /\ response_states[last_event.response_id] \in {"canceled", "completed", "cancelled"}


\* the step is an interruption: user-speech-started with assistant audio
\* playing, or response.created with the assistant speaking
InterruptionStep ==
    \/ HandledStep("input_audio_buffer.speech_started") /\ last_event'.playing
    \/ /\ HandledStep("response.created")
       /\ ~last_event'.gated
       /\ last_event'.speaking

\* C21: an interruption with no assistant item recorded sends no
\* conversation.item.truncate and still stops the player, empties
\* audio_queue and clears assistant_audio_playing; with an item recorded the
\* truncate carries the id of the last assistant item announced and
\* content_index 0.
C21_TruncateSkippedWithoutItem ==
    [][/\ InterruptionStep
          => /\ audio_queue' = <<>>
             /\ ~assistant_audio_playing'
             /\ buffer' = <<>>
             /\ HandledStep("input_audio_buffer.speech_started") => ~stream_active'
             /\ current_item_id = None
                => \A m \in NewlySent : m.type # "conversation.item.truncate"
             /\ current_item_id # None
                => \E m \in NewlySent :
                      /\ m.type = "conversation.item.truncate"
                      /\ m.item_id = current_item_id
                      /\ m.content_index = 0
       /\ HandledStep("conversation.item.created")
          => current_item_id' = IF last_event'.role = "assistant"
                                THEN last_event'.id ELSE current_item_id
      ]_vars

\* user speech has interrupted playing audio with no assistant item known:
\* the response is canceled, the player stopped, nothing but the cancel sent
C21_Witness ==
    /\ last_event.type = "input_audio_buffer.speech_started"
    /\ last_event.playing
    /\ current_item_id = None
    /\ ~stream_active
    /\ sent # <<>>
    /\ \A i \in 1..Len(sent) : sent[i].type = "response.cancel"


\* what a protocol anomaly must leave alone
AnomalyFrame ==
    UNCHANGED <<response_states, audio_queue, playerVars, text_buffer,
                audio_transcript_buffer, sent, stop_audio, ws_open>>

DropStep ==
    /\ play_pc \in {"check_current", "check_state"}
    /\ play_pc' = "get"

\* C23: a fragment put on audio_queue while its response was active is not
\* lost on normal completion: the playback loop discards a fragment only when
\* its response has been interrupted, that is canceled by user speech or
\* replaced as the current response by a later response.created; the
\* response reaching 'completed' does not make the loop discard it.
C23_QueuedAudioDelivered ==
    [][DropStep
       => \/ play_chunk.response_id # current_response_id
          \/ response_states[play_chunk.response_id] \in {"canceled", "cancelled"}
      ]_vars


\* ======================================================================
\* The playing indicator under fair scheduling
\* ======================================================================
\* The playback thread keeps polling audio_queue (client.py:335-353) and the
\* device keeps calling _callback while the stream is started
\* (audio_utils.py:78-88); events may stop arriving at any time.
SpecSettle == Init /\ [][Next]_vars /\ WF_vars(PlayLoop) /\ WF_vars(Callback)

\* the stream is started and has rendered every block the model lets it
RenderedAll ==
    /\ stream_active
    /\ total_samples_played >= MaxCallbacks * blocksize * channels

\* is_idle: nothing pending and the last callback rendered no buffered sample
PlayerIdle == playback_finished /\ buffer = <<>>

\* C24: once no further fragment arrives assistant_audio_playing becomes
\* clear and stays clear, in every interleaving of on_message, the playback
\* loop and the render callback; and when the player is idle at a poll of an
\* empty audio_queue the indicator is cleared (or the player is given audio
\* again).
C24_PlayingSettles ==
    /\ <>[](~assistant_audio_playing) \/ <>[]RenderedAll
    /\ ( PlayerIdle /\ play_pc = "get" /\ audio_queue = <<>> )
         ~> ( ~assistant_audio_playing \/ ~PlayerIdle )

====
